---------------------------- MODULE Spec2Model ----------------------------
(***************************************************************************)
(* Model of mincut.py: MinCutFinder.find_min_cut and the graph engine      *)
(* (Neo4j with APOC path expansion and GDS projections) it calls.          *)
(*                                                                         *)
(* One action per engine call of find_min_cut; the Python code between two *)
(* engine calls belongs to the action of the call before it.               *)
(***************************************************************************)
EXTENDS Integers, Sequences, FiniteSets, TLC

(***************************************************************************)
(* Bounds of the model.                                                    *)
(***************************************************************************)
MaxNodes == 4
MaxEdges == 5
MaxHops == 3
MaxFaults == 1
\* batch_size of _identify_min_cut_relationships (1000 in the source),
\* scaled down so that the batch loop runs more than once.
batch_size == 2

Inv == {1, 2}
\* No exception, no phase.
NONE == "none"
\* Python's None where the value is a number otherwise.
Absent == 0

(***************************************************************************)
(* Graphs.  A node carries one label, an edge an id, a type and an ordered *)
(* pair of nodes.  The source node of every invocation is node 1 and the   *)
(* target node is the graph's target.                                             *)
(***************************************************************************)
Edge(id, a, b, ty) == [id |-> id, src |-> a, dst |-> b, type |-> ty]

\* example.py / demo_cli.py: A=1, B=2, C=3, D=4, E=5, F=6.
Butterfly ==
  [nodes |-> 1..6,
   edges |-> {Edge(1, 1, 2, "R"), Edge(2, 1, 3, "R"), Edge(3, 2, 4, "R"),
              Edge(4, 3, 5, "R"), Edge(5, 4, 6, "R"), Edge(6, 5, 6, "R"),
              Edge(7, 2, 5, "R"), Edge(8, 3, 4, "R")},
   label |-> [n \in 1..6 |-> "L"],
   target |-> 6]

\* test_mincut.py: Node1..Node5.
Diamond ==
  [nodes |-> 1..5,
   edges |-> {Edge(1, 1, 2, "R"), Edge(2, 1, 4, "R"), Edge(3, 2, 3, "R"),
              Edge(4, 2, 4, "R"), Edge(5, 3, 4, "R"), Edge(6, 3, 5, "R"),
              Edge(7, 4, 5, "R")},
   label |-> [n \in 1..5 |-> "L"],
   target |-> 5]

\* The edges the generated graphs are drawn from: source 1, target 2.
Catalogue ==
  << Edge(1, 1, 2, "R"), Edge(2, 1, 3, "R"), Edge(3, 3, 2, "R"),
     Edge(4, 2, 1, "Q"), Edge(5, 4, 3, "R"), Edge(6, 4, 2, "R"),
     Edge(7, 1, 4, "R") >>

Min(a, b) == IF a < b THEN a ELSE b

CandidateEdges(n) ==
  {Catalogue[k] : k \in {j \in 1..Min(MaxEdges, Len(Catalogue)) :
                           Catalogue[j].src <= n /\ Catalogue[j].dst <= n}}

\* Every graph on 2..MaxNodes nodes with a subset of the catalogue's edges
\* and at most one node (m) labelled "M" instead of "L".
GeneratedGraphs ==
  {[nodes |-> 1..n, edges |-> E,
    label |-> [k \in 1..n |-> IF k = m THEN "M" ELSE "L"],
    target |-> 2] :
     <<n, E, m>> \in {t \in (2..MaxNodes) \X (SUBSET CandidateEdges(MaxNodes))
                                          \X (0..MaxNodes) :
                        /\ t[2] \subseteq CandidateEdges(t[1])
                        /\ t[3] <= t[1]}}

TypeFilters == {{"R"}, {}}
LabelFilters == {{"L"}, {"L", "M"}, {}}

(***************************************************************************)
(* The engine: apoc.path.expandConfig as find_min_cut configures it.       *)
(***************************************************************************)
OtherEnd(e, n) == IF e.src = n THEN e.dst ELSE e.src
\* relationshipFilter "T1|T2": either direction; "" is any type.
TypeOk(e, types) == types = {} \/ e.type \in types
\* labelFilter "L1|L2": a whitelist; "" is any node.
LabelOk(G, n, labels) == labels = {} \/ G.label[n] \in labels

Root(s) == [rels |-> <<>>, end |-> s, pruned |-> FALSE]
Visited(B) == {b.rels[Len(b.rels)] : b \in {c \in B : Len(c.rels) > 0}}

\* One step of the traversal: a branch that is not pruned, not at the
\* terminator node and shorter than maxLevel is extended by a relationship
\* no branch has traversed yet (uniqueness RELATIONSHIP_GLOBAL).  The start
\* node is not filtered by label; every other node is.
Steps(G, B, t, types, labels, maxLen) ==
  {B \cup {[rels |-> Append(p[1].rels, p[2].id),
            end |-> OtherEnd(p[2], p[1].end),
            pruned |-> ~LabelOk(G, OtherEnd(p[2], p[1].end), labels)]} :
     p \in {q \in B \X G.edges :
              /\ ~q[1].pruned
              /\ Len(q[1].rels) < maxLen
              /\ (q[1].end # t \/ Len(q[1].rels) = 0)
              /\ (q[2].src = q[1].end \/ q[2].dst = q[1].end)
              /\ TypeOk(q[2], types)
              /\ q[2].id \notin Visited(B)}}

\* The exhausted traversals, whatever the order the engine expands in.
RECURSIVE Traverse(_, _, _, _, _, _)
Traverse(G, states, t, types, labels, maxLen) ==
  LET next == UNION {Steps(G, B, t, types, labels, maxLen) : B \in states}
      fin == {B \in states : Steps(G, B, t, types, labels, maxLen) = {}}
  IN IF states = {} THEN {}
     ELSE fin \cup Traverse(G, next, t, types, labels, maxLen)

\* The answers the engine may give: each is the set of paths (sequences of
\* relationship ids) that end at the terminator node.
ExpandConfig(G, s, t, types, labels, maxLen) ==
  {{b.rels : b \in {c \in B : c.end = t /\ ~c.pruned /\ Len(c.rels) > 0}} :
      B \in Traverse(G, {{Root(s)}}, t, types, labels, maxLen)}


(***************************************************************************)
(* The engine: GDS projection, weakly connected components, cut query.     *)
(***************************************************************************)
\* get_node_condition: "v:L1 OR v:L2 ..." holds of a node with one of the
\* labels; with no label the condition text is empty (a syntax error, see
\* Project).
get_node_condition(G, n, node_labels) == G.label[n] \in node_labels

\* ProjectEdges without the exclusion of excluded_rel_ids.
ProjectEdges_Unmasked(G, relationship_types, node_labels, excluded_rel_ids) ==
  {e \in G.edges :
     /\ get_node_condition(G, e.src, node_labels)
     /\ get_node_condition(G, e.dst, node_labels)
     /\ e.type \in relationship_types}

\* The rows of project_query: every node of the graph is a source row (the
\* WHERE belongs to the OPTIONAL MATCH), and a relationship is a row when
\* both ends match the labels, its type is one of the types and its id is
\* not excluded.
ProjectNodes(G) == G.nodes
ProjectEdges(G, relationship_types, node_labels, excluded_rel_ids) ==
  {e \in G.edges :
     /\ get_node_condition(G, e.src, node_labels)
     /\ get_node_condition(G, e.dst, node_labels)
     /\ e.type \in relationship_types
     /\ e.id \notin excluded_rel_ids}

\* Adjacent following an edge from its start node to its end node only.
Adjacent_Outgoing(E, n) == {e.dst : e \in {f \in E : f.src = n}}

Adjacent(E, n) == {OtherEnd(e, n) : e \in {f \in E : f.src = n \/ f.dst = n}}

RECURSIVE Reach(_, _)
Reach(E, S) ==
  LET T == S \cup UNION {Adjacent(E, n) : n \in S}
  IN IF T = S THEN S ELSE Reach(E, T)

SetMin(S) == CHOOSE x \in S : \A y \in S : x <= y

\* gds.wcc over an undirected projection: the component id of a node is the
\* least node of its component.
Wcc(nodes, E) == [n \in nodes |-> SetMin(Reach(E, {n}))]
ComponentCount(comp) == Cardinality({comp[n] : n \in DOMAIN comp})

\* gds.util.nodeProperty(projection, n, 'componentId').
NodeProperty(p, n) == IF n \in p.nodes THEN p.componentId[n] ELSE Absent

\* CutQuery without the condition on the ids.
CutQuery_AnyId(G, p, rel_ids, start_component, end_component) ==
  {e \in G.edges :
     /\ NodeProperty(p, e.src) \in {start_component, end_component}
     /\ NodeProperty(p, e.dst) \in {start_component, end_component}
     /\ NodeProperty(p, e.src) # NodeProperty(p, e.dst)}

\* CutQuery with the condition on the component of the start node only.
CutQuery_OneSided(G, p, rel_ids, start_component, end_component) ==
  {e \in G.edges :
     /\ e.id \in rel_ids
     /\ NodeProperty(p, e.src) \in {start_component, end_component}
     /\ NodeProperty(p, e.src) # NodeProperty(p, e.dst)}

\* The rows of the cut query of _identify_min_cut_relationships for one
\* batch of ids, read against the projection p.
CutQuery(G, p, rel_ids, start_component, end_component) ==
  {e \in G.edges :
     /\ e.id \in rel_ids
     /\ NodeProperty(p, e.src) \in {start_component, end_component}
     /\ NodeProperty(p, e.dst) \in {start_component, end_component}
     /\ NodeProperty(p, e.src) # NodeProperty(p, e.dst)}

\* A set of edges as the list of result records, by ascending id.
RECURSIVE Rows(_)
Rows(E) ==
  IF E = {} THEN <<>>
  ELSE LET e == CHOOSE x \in E : \A y \in E : x.id <= y.id
       IN <<[id |-> e.id, source |-> e.src, target |-> e.dst]>> \o Rows(E \ {e})

\* _extract_relationships_from_paths keeping the last id of each path.
_extract_last_relationships(paths) == {p[Len(p)] : p \in paths}

\* _extract_relationships_from_paths: the set of the ids on the paths.
_extract_relationships_from_paths(paths) ==
  UNION {{p[k] : k \in 1..Len(p)} : p \in paths}

(***************************************************************************)
(* State.                                                                  *)
(***************************************************************************)
VARIABLES
  graph,    \* the graph in the database
  proj,     \* the projection named min_cut_projection
  inv,      \* inv[i]: the locals of invocation i of find_min_cut
  answers,  \* the engine's answers to the expansion queries asked so far
  faults,   \* engine calls that failed for a reason outside the model
  overlapped, \* two invocations have been in progress at the same time
  plugins,  \* the procedure libraries installed in the engine
  finder,   \* the MinCutFinder: self.driver and what connect() found
  main      \* min_cut_cli.main: where it is and its exit code

vars == <<graph, proj, inv, answers, faults, overlapped, plugins, finder, main>>

FaultKinds == {"Neo4jError", "DriverError"}
\* example.py:88, test_mincut.py:128
ScenarioHops == 5
HopBounds == IF graph \in {Butterfly, Diamond} THEN {MaxHops, ScenarioHops}
             ELSE 1..MaxHops

\* No projection of the name in the engine's catalog.
NoProjection ==
  [exists |-> FALSE, nodes |-> {}, edges |-> {}, mutated |-> FALSE,
   componentId |-> <<>>, owner |-> 0, wccBy |-> 0]

Idle ==
  [pc |-> "idle", ids_are_str |-> TRUE, relationship_types |-> {},
   node_labels |-> {}, max_path_length |-> 0, paths |-> {},
   path_relationships |-> {}, component_count |-> Absent,
   start_component |-> Absent, end_component |-> Absent, remaining |-> {},
   min_cut |-> <<>>, result |-> <<>>, err |-> NONE, phase |-> NONE,
   calls |-> <<>>, batches |-> <<>>, foreign |-> FALSE, faulted |-> FALSE]

Active(i) == inv[i].pc \notin {"idle", "done", "failed"}
Done(i) == inv[i].pc = "done"
Failed(i) == inv[i].pc = "failed"
Terminated(i) == Done(i) \/ Failed(i)
Source == 1
Target == graph.target

\* The libraries connect() asks for: APOC and GDS.
Required == {"apoc", "gds"}

\* self.driver of a new MinCutFinder is None; the driver of a finder whose
\* connect() has returned True is open and its plugins are verified.
NewFinder == [driver |-> "none", verified |-> FALSE, err |-> NONE]
Connected == [driver |-> "open", verified |-> TRUE, err |-> NONE]

\* main has not been started: no exit code yet (-1).
NoMain ==
  [pc |-> "idle", start_known |-> TRUE, end_known |-> TRUE, raised |-> NONE,
   exit |-> -1]

Engine(graphs, failed, installed) ==
  /\ graph \in graphs
  /\ proj = NoProjection
  /\ inv = [i \in Inv |-> Idle]
  /\ answers = {}
  /\ faults = failed
  /\ overlapped = FALSE
  /\ plugins \in installed
  /\ main = NoMain

\* A finder that is connected to an engine with both libraries.
InitWith(graphs, failed) ==
  /\ Engine(graphs, failed, {Required})
  /\ finder = Connected

Init == InitWith(GeneratedGraphs, 0)
InitButterfly == InitWith({Butterfly}, 0)
InitDiamond == InitWith({Diamond}, 0)

\* The invocation goes on with its locals changed to r.
Goes(i, r) ==
  /\ UNCHANGED <<plugins, main>>
  /\ inv' = [inv EXCEPT ![i] = r]
  /\ overlapped' = (overlapped \/
                      (r.pc \notin {"idle", "done", "failed"} /\
                       \E j \in Inv \ {i} : Active(j)))

\* The engine call is entered in the invocation's log of calls.
Log(r, call) == [r EXCEPT !.calls = Append(@, call)]

\* An exception leaves find_min_cut from the given phase: the handler of
\* find_min_cut logs and re-raises, and nothing else runs.
Raised(r, kind, phase) ==
  [r EXCEPT !.pc = "failed", !.err = kind, !.phase = phase]

\* What the caller of find_min_cut gets when it raises: the handler logs
\* and re-raises the exception it caught, which is of the class the engine
\* call or the code raised and names no phase.
Surfaced(r) == [kind |-> r.err, phase |-> NONE]

\* An engine call of invocation i fails for a reason outside the model.
Fault(i, kinds, phase, call) ==
  /\ faults < MaxFaults
  /\ faults' = faults + 1
  /\ \E kind \in kinds :
       Goes(i, Raised([Log(inv[i], call) EXCEPT !.faulted = TRUE],
                      kind, phase))

(***************************************************************************)
(* connect.                                                                *)
(***************************************************************************)
\* connect: self.driver is assigned first; then the test query runs and
\* _verify_plugins calls apoc.help and gds.list.  Whatever fails there
\* (the server does not answer, a library is missing) is raised as
\* ConnectionError, and self.driver stays assigned.  The outcomes, each
\* with the number of engine failures it takes.
connect ==
  {<<[driver |-> "open", verified |-> Required \subseteq plugins,
      err |-> IF Required \subseteq plugins THEN NONE
              ELSE "ConnectionError"], 0>>}
  \cup (IF faults < MaxFaults
        THEN {<<[driver |-> "open", verified |-> FALSE,
                 err |-> "ConnectionError"], 1>>}
        ELSE {})

\* "if not self.driver: self.connect()".
EnsureDriver == IF finder.driver = "none" THEN connect ELSE {<<finder, 0>>}

\* The caller calls connect() on the finder, between invocations.
Connect ==
  /\ \A i \in Inv : ~Active(i)
  /\ main.pc = "idle"
  /\ \E c \in connect : finder' = c[1] /\ faults' = faults + c[2]
  /\ UNCHANGED <<graph, proj, inv, answers, overlapped, plugins, main>>

\* The caller calls close() on the finder, between invocations: the driver
\* is closed and self.driver keeps referring to it.
Close ==
  /\ \A i \in Inv : ~Active(i)
  /\ main.pc = "idle"
  /\ finder.driver = "open"
  /\ finder' = [finder EXCEPT !.driver = "closed"]
  /\ UNCHANGED <<graph, proj, inv, answers, faults, overlapped, plugins, main>>

(***************************************************************************)
(* find_min_cut, one action per engine call.                               *)
(***************************************************************************)
\* find_min_cut is called with arguments drawn from the sets given.  It
\* connects when self.driver is None, and a failure of connect leaves
\* find_min_cut as ConnectionError; start_node_id.strip() raises
\* AttributeError for an id that is not a string.
CallWith(i, strs, typeChoices, labelChoices, hops) ==
  /\ inv[i].pc = "idle"
  /\ \E str \in strs, types \in typeChoices, labels \in labelChoices,
        len \in hops, c \in EnsureDriver :
       LET r == [inv[i] EXCEPT !.ids_are_str = str,
                               !.relationship_types = types,
                               !.node_labels = labels,
                               !.max_path_length = len]
       IN /\ finder' = c[1]
          /\ faults' = faults + c[2]
          /\ IF finder.driver = "none" /\ c[1].err # NONE
             THEN Goes(i, Raised([r EXCEPT !.faulted = c[2] > 0],
                                 "ConnectionError", "connect"))
             ELSE IF str THEN Goes(i, [r EXCEPT !.pc = "enumerate"])
             ELSE Goes(i, Raised(r, "AttributeError", "strip"))
  /\ UNCHANGED <<graph, proj, answers>>

Call(i, strs, typeChoices, labelChoices) ==
  CallWith(i, strs, typeChoices, labelChoices, HopBounds)

Begin(i) == Call(i, BOOLEAN, TypeFilters, LabelFilters)
\* A call that gets as far as the projection: string ids, a type, a label.
BeginFiltered(i) == Call(i, {TRUE}, {{"R"}}, {{"L"}, {"L", "M"}})

\* AfterPaths without the test "if not paths".
AfterPaths_Unchecked(r, paths) ==
  [r EXCEPT !.pc = "create_drop", !.paths = paths,
            !.path_relationships = _extract_relationships_from_paths(paths)]

\* Step 1 and 2: no path returns [], else the ids of the paths are taken.
AfterPaths(r, paths) ==
  IF paths = {} THEN [r EXCEPT !.pc = "done", !.result = <<>>]
  ELSE [r EXCEPT !.pc = "create_drop", !.paths = paths,
                 !.path_relationships = _extract_relationships_from_paths(paths)]

\* _find_edge_disjoint_paths followed by a drop of the projection when
\* there is no path.
FindPaths_Cleanup(i) ==
  /\ inv[i].pc = "enumerate"
  /\ UNCHANGED <<graph, finder, faults>>
  /\ LET q == <<inv[i].relationship_types, inv[i].node_labels,
                inv[i].max_path_length>>
         known == {a \in answers : a.query = q}
     IN \E paths \in (IF known # {} THEN {a.paths : a \in known}
                      ELSE ExpandConfig(graph, Source, Target,
                                        q[1], q[2], q[3])) :
          /\ answers' = answers \cup {[query |-> q, paths |-> paths]}
          /\ proj' = IF paths = {} THEN NoProjection ELSE proj
          /\ Goes(i, AfterPaths(Log(inv[i], "expand"), paths))

\* _find_edge_disjoint_paths.  The engine answers the same query on the
\* same graph the same way; without APOC it knows no such procedure.  On a
\* driver that has been closed the driver library either raises or serves
\* the session, depending on its version.
FindPaths(i) ==
  /\ inv[i].pc = "enumerate"
  /\ UNCHANGED <<graph, proj, finder>>
  /\ \/ Fault(i, FaultKinds, "enumerate", "expand") /\ UNCHANGED answers
     \/ /\ finder.driver = "closed"
        /\ UNCHANGED <<faults, answers>>
        /\ Goes(i, Raised(Log(inv[i], "expand"), "DriverError", "enumerate"))
     \/ /\ "apoc" \notin plugins
        /\ UNCHANGED <<faults, answers>>
        /\ Goes(i, Raised(Log(inv[i], "expand"), "Neo4jError", "enumerate"))
     \/ /\ "apoc" \in plugins
        /\ UNCHANGED faults
        /\ LET q == <<inv[i].relationship_types, inv[i].node_labels,
                      inv[i].max_path_length>>
               known == {a \in answers : a.query = q}
           IN \E paths \in (IF known # {} THEN {a.paths : a \in known}
                            ELSE ExpandConfig(graph, Source, Target,
                                              q[1], q[2], q[3])) :
                /\ answers' = answers \cup {[query |-> q, paths |-> paths]}
                /\ Goes(i, AfterPaths(Log(inv[i], "expand"), paths))

\* _drop_gds_projection asking for another name: the engine has no such
\* graph, and the projection stays.
_drop_other_name(i, phase, r) ==
  /\ UNCHANGED <<proj, faults>>
  /\ Goes(i, Log(r, "drop_failed"))

\* _drop_gds_projection dropping the projection only when this invocation
\* created it.
_drop_own_only(i, phase, r) ==
  \/ /\ proj.exists /\ proj.owner = i
     /\ proj' = NoProjection
     /\ UNCHANGED faults
     /\ Goes(i, Log(r, "drop"))
  \/ /\ ~(proj.exists /\ proj.owner = i)
     /\ UNCHANGED <<proj, faults>>
     /\ Goes(i, Log(r, "drop_failed"))

\* _drop_gds_projection, with r the locals once it has returned.  The
\* engine raises Neo4jError for a graph that does not exist; Neo4jError is
\* caught and logged, any other exception is not.
_drop_gds_projection(i, phase, r) ==
  \/ /\ proj.exists
     /\ proj' = NoProjection
     /\ UNCHANGED faults
     /\ Goes(i, Log(r, "drop"))
  \/ /\ ~proj.exists
     /\ UNCHANGED <<proj, faults>>
     /\ Goes(i, Log(r, "drop_failed"))
  \/ /\ proj.exists
     /\ faults < MaxFaults
     /\ faults' = faults + 1
     /\ UNCHANGED proj
     /\ Goes(i, [Log(r, "drop_failed") EXCEPT !.faulted = TRUE])
  \/ /\ Fault(i, {"DriverError"}, phase, "drop_failed")
     /\ UNCHANGED proj

\* _create_gds_projection_without_paths up to the project query:
\* rel_type_condition is bound only when there is a relationship type.
AfterCreateDrop(r) ==
  IF r.relationship_types = {} THEN Raised(r, "UnboundLocalError", "create")
  ELSE [r EXCEPT !.pc = "project"]

\* _create_gds_projection_without_paths without its first drop.
CreateDrop_Skipped(i) ==
  /\ inv[i].pc = "create_drop"
  /\ UNCHANGED <<graph, answers, finder, proj, faults>>
  /\ Goes(i, AfterCreateDrop(inv[i]))

CreateDrop(i) ==
  /\ inv[i].pc = "create_drop"
  /\ UNCHANGED <<graph, answers, finder>>
  /\ _drop_gds_projection(i, "create", AfterCreateDrop(inv[i]))

\* Project taking the path relationships out of the graph itself instead
\* of excluding them from the projection.
Project_DeletesPaths(i) ==
  /\ inv[i].pc = "project"
  /\ inv[i].node_labels # {} /\ ~proj.exists /\ "gds" \in plugins
  /\ UNCHANGED <<answers, finder, faults>>
  /\ graph' = [graph EXCEPT !.edges =
                  {e \in @ : e.id \notin inv[i].path_relationships}]
  /\ proj' = [exists |-> TRUE,
              nodes |-> ProjectNodes(graph),
              edges |-> ProjectEdges(graph, inv[i].relationship_types,
                                     inv[i].node_labels,
                                     inv[i].path_relationships),
              mutated |-> FALSE, componentId |-> <<>>,
              owner |-> i, wccBy |-> 0]
  /\ Goes(i, [Log(inv[i], "project") EXCEPT !.pc = "wcc"])

\* The project query.  With no node label the conditions are "()", which
\* the engine rejects; it rejects a name that is in its catalog too, and
\* without GDS it knows no gds.graph.project.
Project(i) ==
  /\ inv[i].pc = "project"
  /\ UNCHANGED <<graph, answers, finder>>
  /\ \/ Fault(i, FaultKinds, "create", "project") /\ UNCHANGED proj
     \/ /\ inv[i].node_labels = {} \/ proj.exists \/ "gds" \notin plugins
        /\ UNCHANGED <<proj, faults>>
        /\ Goes(i, Raised(Log(inv[i], "project"), "Neo4jError", "create"))
     \/ /\ inv[i].node_labels # {} /\ ~proj.exists /\ "gds" \in plugins
        /\ UNCHANGED faults
        /\ proj' = [exists |-> TRUE,
                    nodes |-> ProjectNodes(graph),
                    edges |-> ProjectEdges(graph, inv[i].relationship_types,
                                           inv[i].node_labels,
                                           inv[i].path_relationships),
                    mutated |-> FALSE, componentId |-> <<>>,
                    owner |-> i, wccBy |-> 0]
        /\ Goes(i, [Log(inv[i], "project") EXCEPT !.pc = "wcc"])

\* AfterWcc without the test of the count.
AfterWcc_Untested(r, component_count) ==
  [r EXCEPT !.component_count = component_count, !.pc = "get_start"]

\* AfterWcc with the test "component_count > 0".
AfterWcc_Positive(r, component_count) ==
  IF ~(component_count > 0)
  THEN Raised([r EXCEPT !.component_count = component_count],
              "ValueError", "wcc")
  ELSE [r EXCEPT !.component_count = component_count, !.pc = "get_start"]

\* _run_wcc_algorithm: a count that is not > 1 raises ValueError.
AfterWcc(r, component_count) ==
  IF ~(component_count > 1)
  THEN Raised([r EXCEPT !.component_count = component_count],
              "ValueError", "wcc")
  ELSE [r EXCEPT !.component_count = component_count, !.pc = "get_start"]

\* gds.wcc.mutate fails without the graph and when the graph has the
\* property componentId already.
RunWcc(i) ==
  /\ inv[i].pc = "wcc"
  /\ UNCHANGED <<graph, answers, finder>>
  /\ \/ Fault(i, FaultKinds, "wcc", "wcc") /\ UNCHANGED proj
     \/ /\ ~proj.exists \/ proj.mutated
        /\ UNCHANGED <<proj, faults>>
        /\ Goes(i, Raised(Log(inv[i], "wcc"), "Neo4jError", "wcc"))
     \/ /\ proj.exists /\ ~proj.mutated
        /\ UNCHANGED faults
        /\ LET comp == Wcc(proj.nodes, proj.edges)
           IN /\ proj' = [proj EXCEPT !.mutated = TRUE, !.componentId = comp,
                                      !.wccBy = i]
              /\ Goes(i, AfterWcc(Log(inv[i], "wcc"), ComponentCount(comp)))

\* _get_component_id fails without the graph or its property.
Readable == proj.exists /\ proj.mutated

\* Bookkeeping: invocation i has read component ids of a projection it did
\* not create or of a computation it did not run.
Reads(i, r) ==
  [r EXCEPT !.foreign = @ \/ proj.owner # i \/ proj.wccBy # i]

GetStart(i) ==
  /\ inv[i].pc = "get_start"
  /\ UNCHANGED <<graph, answers, proj, finder>>
  /\ \/ Fault(i, FaultKinds, "identify", "read")
     \/ /\ ~Readable
        /\ UNCHANGED faults
        /\ Goes(i, Raised(Log(inv[i], "read"), "Neo4jError", "identify"))
     \/ /\ Readable
        /\ UNCHANGED faults
        /\ Goes(i, [Reads(i, Log(inv[i], "read")) EXCEPT !.pc = "get_end",
                      !.start_component = NodeProperty(proj, Source)])

\* _identify_min_cut_relationships between the second read and the first
\* batch query.
AfterComponents(r) ==
  IF r.start_component = Absent \/ r.end_component = Absent
  THEN Raised(r, "ValueError", "identify")
  ELSE IF r.start_component = r.end_component
  THEN [r EXCEPT !.pc = "final_drop", !.min_cut = <<>>]
  ELSE IF r.path_relationships = {}
  THEN [r EXCEPT !.pc = "final_drop", !.min_cut = <<>>]
  ELSE [r EXCEPT !.pc = "select", !.min_cut = <<>>,
                 !.remaining = r.path_relationships]

GetEnd(i) ==
  /\ inv[i].pc = "get_end"
  /\ UNCHANGED <<graph, answers, proj, finder>>
  /\ \/ Fault(i, FaultKinds, "identify", "read")
     \/ /\ ~Readable
        /\ UNCHANGED faults
        /\ Goes(i, Raised(Log(inv[i], "read"), "Neo4jError", "identify"))
     \/ /\ Readable
        /\ UNCHANGED faults
        /\ Goes(i, AfterComponents(
                     [Reads(i, Log(inv[i], "read")) EXCEPT
                        !.end_component = NodeProperty(proj, Target)]))

\* AfterBatch keeping the rows of the last batch only.
AfterBatch_LastOnly(r, batch, rows) ==
  [r EXCEPT !.min_cut = rows,
            !.remaining = @ \ batch,
            !.batches = Append(@, batch),
            !.pc = IF r.remaining \ batch = {} THEN "final_drop" ELSE "select"]

\* AfterBatch waiting for a further batch when none remains.
AfterBatch_NoExit(r, batch, rows) ==
  [r EXCEPT !.min_cut = @ \o rows,
            !.remaining = @ \ batch,
            !.batches = Append(@, batch),
            !.pc = IF r.remaining \ batch = {} THEN "wait" ELSE "select"]

\* AfterBatch going on from the second id of the batch it has just sent.
AfterBatch_Overlap(r, batch, rows) ==
  [r EXCEPT !.min_cut = @ \o rows,
            !.remaining = @ \ {SetMin(batch)},
            !.batches = Append(@, batch),
            !.pc = IF r.remaining \ {SetMin(batch)} = {} THEN "final_drop"
                   ELSE "select"]

\* AfterBatch for a cut query that matches (a)-[r]-(b): a relationship is
\* a row once from each of its ends.
AfterBatch_BothEnds(r, batch, rows) ==
  [r EXCEPT !.min_cut = @ \o rows \o
                        [k \in 1..Len(rows) |->
                           [id |-> rows[k].id, source |-> rows[k].target,
                            target |-> rows[k].source]],
            !.remaining = @ \ batch,
            !.batches = Append(@, batch),
            !.pc = IF r.remaining \ batch = {} THEN "final_drop" ELSE "select"]

\* One turn of the batch loop: the next batch_size ids of path_rel_list (a
\* list made from a set, in any order) are sent and the rows appended.
AfterBatch(r, batch, rows) ==
  [r EXCEPT !.min_cut = @ \o rows,
            !.remaining = @ \ batch,
            !.batches = Append(@, batch),
            !.pc = IF r.remaining \ batch = {} THEN "final_drop" ELSE "select"]

SelectBatch(i) ==
  /\ inv[i].pc = "select"
  /\ UNCHANGED <<graph, answers, proj, finder>>
  /\ \/ Fault(i, FaultKinds, "identify", "select")
     \/ /\ ~Readable
        /\ UNCHANGED faults
        /\ Goes(i, Raised(Log(inv[i], "select"), "Neo4jError", "identify"))
     \/ /\ Readable
        /\ UNCHANGED faults
        /\ \E batch \in SUBSET inv[i].remaining :
             /\ Cardinality(batch) =
                  Min(batch_size, Cardinality(inv[i].remaining))
             /\ Goes(i, AfterBatch(Reads(i, Log(inv[i], "select")), batch,
                          Rows(CutQuery(graph, proj, batch,
                                        inv[i].start_component,
                                        inv[i].end_component))))

\* The return of min_cut without step 6.
FinalDrop_Skipped(i) ==
  /\ inv[i].pc = "final_drop"
  /\ UNCHANGED <<graph, answers, finder, proj, faults>>
  /\ Goes(i, [inv[i] EXCEPT !.pc = "done", !.result = inv[i].min_cut])

\* Step 6 and the return of min_cut.
FinalDrop(i) ==
  /\ inv[i].pc = "final_drop"
  /\ UNCHANGED <<graph, answers, finder>>
  /\ _drop_gds_projection(i, "drop",
        [inv[i] EXCEPT !.pc = "done", !.result = inv[i].min_cut])

(***************************************************************************)
(* min_cut_cli.main and the module-level find_min_cut it calls.            *)
(***************************************************************************)
\* main parses its arguments (parse_list_arg does not fail) and calls
\* find_min_cut(..., ids_are_node_ids=True), which makes a MinCutFinder.
\* The node ids given may or may not be ids of nodes of the database.
MainStart ==
  /\ main.pc = "idle"
  /\ \E s \in BOOLEAN, e \in BOOLEAN :
       main' = [main EXCEPT !.pc = "translate_start", !.start_known = s,
                            !.end_known = e]
  /\ finder' = NewFinder
  /\ UNCHANGED <<graph, proj, inv, answers, faults, overlapped, plugins>>

\* main's handler: "except Exception: ... return 1".
MainRaised(kind) == [main EXCEPT !.pc = "returned", !.raised = kind, !.exit = 1]

\* get_element_id_from_id: connects when self.driver is None; the query
\* may fail, and result.single() is None for an id that is no node's, so
\* that subscripting it raises TypeError.  No finally is around it in
\* find_min_cut: the exception goes to main.
Translate(from, known, to) ==
  /\ main.pc = from
  /\ UNCHANGED <<graph, proj, inv, answers, overlapped, plugins>>
  /\ \E c \in EnsureDriver :
       /\ finder' = c[1]
       /\ IF finder.driver = "none" /\ c[1].err # NONE
          THEN /\ faults' = faults + c[2]
               /\ main' = MainRaised("ConnectionError")
          ELSE \/ /\ faults + c[2] < MaxFaults
                  /\ faults' = faults + c[2] + 1
                  /\ \E kind \in FaultKinds : main' = MainRaised(kind)
               \/ /\ faults' = faults + c[2]
                  /\ main' = IF known THEN [main EXCEPT !.pc = to]
                             ELSE MainRaised("TypeError")

TranslateStart == Translate("translate_start", main.start_known, "translate_end")
TranslateEnd == Translate("translate_end", main.end_known, "find")

\* finder.find_min_cut with the element ids (strings) and the lists main
\* parsed.
MainFind == main.pc = "find" /\ BeginFiltered(1)

\* MainReturn returning 0 from the handler too.
MainReturn_AlwaysZero ==
  /\ main.pc = "find" /\ Terminated(1)
  /\ finder' = [finder EXCEPT !.driver = "closed"]
  /\ main' = [main EXCEPT !.pc = "returned", !.exit = 0,
                !.raised = IF Done(1) THEN NONE ELSE inv[1].err]
  /\ UNCHANGED <<graph, proj, inv, answers, faults, overlapped, plugins>>

\* finder.find_min_cut has returned or raised: "finally: finder.close()",
\* then main prints the cut and returns 0, or its handler returns 1.
MainReturn ==
  /\ main.pc = "find" /\ Terminated(1)
  /\ finder' = [finder EXCEPT !.driver = "closed"]
  /\ main' = IF Done(1) THEN [main EXCEPT !.pc = "returned", !.exit = 0]
             ELSE MainRaised(inv[1].err)
  /\ UNCHANGED <<graph, proj, inv, answers, faults, overlapped, plugins>>

(***************************************************************************)
(* Specifications.                                                         *)
(***************************************************************************)
Run ==
  \/ \E i \in Inv : FindPaths(i)
  \/ \E i \in Inv : CreateDrop(i)
  \/ \E i \in Inv : Project(i)
  \/ \E i \in Inv : RunWcc(i)
  \/ \E i \in Inv : GetStart(i)
  \/ \E i \in Inv : GetEnd(i)
  \/ \E i \in Inv : SelectBatch(i)
  \/ \E i \in Inv : FinalDrop(i)

\* One invocation on any of the generated graphs.
Next == Begin(1) \/ Run
Spec == Init /\ [][Next]_vars

\* One invocation in which every engine call returns, a value or an error:
\* a step that can be taken is taken.
SpecLive == Init /\ [][Next]_vars /\ WF_vars(Run)

\* One invocation on the butterfly graph of example.py.
SpecButterfly == InitButterfly /\ [][Next]_vars

\* One invocation on the graph of test_mincut.py.
SpecDiamond == InitDiamond /\ [][Next]_vars

\* Two invocations, in any interleaving (one after the other included), on
\* the generated graphs that have every node and the triangle 1-2, 1-3,
\* 3-2; the last node may carry the other label.  No engine call fails for
\* a reason outside the model: what fails here, the invocations cause.
TwoGraphs ==
  {g \in GeneratedGraphs :
     /\ Cardinality(g.nodes) = MaxNodes
     /\ {Catalogue[1], Catalogue[2], Catalogue[3]} \subseteq g.edges
     /\ \A n \in g.nodes : n # MaxNodes => g.label[n] = "L"}
InitTwo == InitWith(TwoGraphs, MaxFaults)
NextTwo == (\E i \in Inv : BeginFiltered(i)) \/ Run
SpecTwo == InitTwo /\ [][NextTwo]_vars

\* One run of main against an engine with any of the libraries.
InitCli == Engine(TwoGraphs, 0, SUBSET Required) /\ finder = NewFinder
NextCli ==
  MainStart \/ TranslateStart \/ TranslateEnd \/ MainFind \/ Run \/ MainReturn
SpecCli == InitCli /\ [][NextCli]_vars

\* The graphs of TwoGraphs and the generated graphs on three nodes (in
\* some of them every path goes through the node of the other label).
SeqGraphs ==
  TwoGraphs \cup {g \in GeneratedGraphs : Cardinality(g.nodes) = 3}

\* Two invocations of one finder on the graphs of SeqGraphs, the second
\* after the first has returned or raised.  The first has any arguments,
\* the second the arguments of the first with any of the label filters; an
\* engine call may fail for a reason outside the model.
InitSeq == InitWith(SeqGraphs, 0)
Second ==
  /\ Terminated(1)
  /\ CallWith(2, {inv[1].ids_are_str}, {inv[1].relationship_types},
              LabelFilters, {inv[1].max_path_length})
NextSeq == Begin(1) \/ Second \/ Run
SpecSeq == InitSeq /\ [][NextSeq]_vars

\* A new finder and an engine with any of the libraries: the caller calls
\* connect() any number of times and find_min_cut twice, one call after
\* the other.
InitConn == Engine(TwoGraphs, 0, SUBSET Required) /\ finder = NewFinder
NextConn == Connect \/ Begin(1) \/ Second \/ Run
SpecConn == InitConn /\ [][NextConn]_vars

\* A new finder and an engine with both libraries: the caller calls
\* connect() and close() any number of times and find_min_cut twice, one
\* call after the other.
InitClose == Engine(TwoGraphs, 0, {Required}) /\ finder = NewFinder
NextClose == Connect \/ Close \/ BeginFiltered(1) \/ Second \/ Run
SpecClose == InitClose /\ [][NextClose]_vars

(***************************************************************************)
(* Properties.                                                             *)
(***************************************************************************)
Ids(rows) == {rows[k].id : k \in 1..Len(rows)}
IsDrop(call) == call \in {"drop", "drop_failed"}
Issued(i, call) == \E k \in 1..Len(inv[i].calls) : inv[i].calls[k] = call
Query(i) ==
  <<inv[i].relationship_types, inv[i].node_labels, inv[i].max_path_length>>

\* The graph restricted to the filters of invocation i, without the edges
\* of the given ids.
Restricted(i, without) ==
  ProjectEdges(graph, inv[i].relationship_types, inv[i].node_labels, without)

\* C1: when find_min_cut returns a cut (here: a cut that has an edge),
\* removing the returned edges from the graph restricted to the filters
\* leaves source and target in different weakly connected components.
C1_CutSeparates ==
  \A i \in Inv :
    Done(i) /\ inv[i].result # <<>> =>
      Target \notin Reach(Restricted(i, Ids(inv[i].result)), {Source})

\* C2: a failure in projection creation, component computation, the reads
\* of the endpoint labels or a batch query is followed by a drop of the
\* projection before find_min_cut terminates, and the projection of the
\* invocation is not left behind.
C2_FailureDrops ==
  \A i \in Inv :
    Failed(i) /\ inv[i].phase \in {"create", "wcc", "identify"} =>
      /\ IsDrop(inv[i].calls[Len(inv[i].calls)])
      /\ ~(proj.exists /\ proj.owner = i)

\* C3: when the path enumeration finds no path, find_min_cut returns the
\* empty cut and raises nothing.
FoundNoPath(i) ==
  /\ Issued(i, "expand")
  /\ inv[i].phase # "enumerate"
  /\ \E a \in answers : a.query = Query(i) /\ a.paths = {}

C3_NoPathEmptyCut ==
  \A i \in Inv :
    FoundNoPath(i) =>
      Done(i) /\ inv[i].result = <<>> /\ inv[i].err = NONE

C3_Witness == \E i \in Inv : FoundNoPath(i) /\ Done(i)

\* C4: every edge of the cut, while it is accumulated and when it is
\* returned, is in the masked-edge set of the invocation, which is the set
\* of the edges of its paths.
C4_CutWithinMasked ==
  \A i \in Inv :
    /\ Ids(inv[i].min_cut) \subseteq inv[i].path_relationships
    /\ Ids(inv[i].result) \subseteq inv[i].path_relationships
    /\ \A id \in inv[i].path_relationships :
         \E p \in inv[i].paths : \E k \in 1..Len(p) : p[k] = id

C4_Witness ==
  \E i \in Inv : Done(i) /\ inv[i].result # <<>>
                 /\ Ids(inv[i].result) # inv[i].path_relationships

\* Source and target of invocation i carry the same component label once
\* its masked edges are removed.
SameLabel(i) ==
  /\ inv[i].paths # {}
  /\ inv[i].node_labels # {} /\ inv[i].relationship_types # {}
  /\ LET comp == Wcc(ProjectNodes(graph),
                     Restricted(i, inv[i].path_relationships))
     IN comp[Source] = comp[Target]

OutcomeKind(i) == IF Done(i) THEN "cut" ELSE inv[i].err

\* C5: the invocations in which source and target carry the same label
\* after masking all end the same way: all with the empty cut or all with
\* the error, whatever the rest of the projection is.
C5_SinglePolicy ==
  ~overlapped =>
    \A i, j \in Inv :
      (SameLabel(i) /\ Terminated(i) /\ SameLabel(j) /\ Terminated(j)) =>
        OutcomeKind(i) = OutcomeKind(j)

\* C6: a component count <= 1 makes find_min_cut fail with an error; no
\* cut is returned and no cut selection (label read, batch query) runs.
C6_DegenerateFails ==
  \A i \in Inv :
    inv[i].component_count # Absent /\ inv[i].component_count <= 1 =>
      /\ Failed(i) /\ inv[i].err = "ValueError"
      /\ inv[i].result = <<>> /\ inv[i].min_cut = <<>>
      /\ ~Issued(i, "read") /\ ~Issued(i, "select")

C6_Witness ==
  \E i \in Inv : Failed(i) /\ inv[i].component_count = 1

\* C7: when source or target does not match the node-label filter,
\* find_min_cut does not return a cut: it fails.  (Stated for the
\* invocations whose enumeration found a path; with no path C3 applies.)
EndpointFiltered(i) ==
  /\ inv[i].node_labels # {}
  /\ \/ graph.label[Source] \notin inv[i].node_labels
     \/ graph.label[Target] \notin inv[i].node_labels

C7_FilteredEndpointFails ==
  \A i \in Inv : EndpointFiltered(i) /\ ~FoundNoPath(i) => ~Done(i)

\* Invocation i is between the creation of its projection and its final
\* drop, and the projection is gone, is another invocation's, or carries
\* the labels of another invocation's computation.
Interfered(i) ==
  /\ inv[i].pc \in {"wcc", "get_start", "get_end", "select"}
  /\ \/ ~proj.exists
     \/ proj.owner # i
     \/ proj.mutated /\ proj.wccBy # i

\* C8: only invocations that overlap in time disturb one another: a
\* projection dropped or replaced under an invocation, labels read that it
\* did not compute, an engine error.  (C8_Witness: with overlap it
\* happens.)
C8_OnlyOverlapInterferes ==
  \A i \in Inv :
    (Interfered(i) \/ inv[i].foreign \/ inv[i].err = "Neo4jError")
      => overlapped

C8_Witness ==
  /\ \E i \in Inv : Done(i) /\ inv[i].foreign
  /\ \E i \in Inv : Failed(i) /\ inv[i].err = "Neo4jError"

\* The paths share no edge with one another.
EdgeDisjoint(paths) ==
  \A p, q \in paths :
    p # q => {p[k] : k \in 1..Len(p)} \cap {q[k] : k \in 1..Len(q)} = {}

\* An invocation as the scenarios make it: string ids, one type, one
\* label, no engine call failing for a reason outside the model.
Scenario(i) ==
  /\ inv[i].ids_are_str
  /\ inv[i].relationship_types = {"R"} /\ inv[i].node_labels = {"L"}
  /\ faults = 0

\* C9: on the butterfly graph with a hop bound >= 3 and pairwise
\* edge-disjoint paths from the enumerator, find_min_cut(A, F) returns
\* exactly the edges D-F (5) and E-F (6).
C9_ButterflyCut ==
  \A i \in Inv :
    (/\ Terminated(i) /\ Scenario(i)
     /\ inv[i].max_path_length >= 3
     /\ inv[i].paths # {} /\ EdgeDisjoint(inv[i].paths))
      => Done(i) /\ Ids(inv[i].result) = {5, 6}

\* C10: on the graph of test_mincut.py, find_min_cut(Node1, Node5) returns
\* exactly two edges, (Node2, Node3) and (Node4, Node5).
C10_DiamondCut ==
  \A i \in Inv :
    Terminated(i) /\ Scenario(i) /\ inv[i].max_path_length = ScenarioHops
      => /\ Done(i) /\ Len(inv[i].result) = 2
         /\ {<<inv[i].result[k].source, inv[i].result[k].target>> :
               k \in 1..Len(inv[i].result)} = {<<2, 3>>, <<4, 5>>}

\* The cut selection of invocation i has run all its batches against the
\* projection it created and labelled itself.
Selected(i) ==
  /\ inv[i].pc = "final_drop" /\ inv[i].batches # <<>>
  /\ proj.exists /\ proj.mutated /\ ~inv[i].foreign

\* The ids the cut query selects among ids when they are sent in batches
\* of one, and when they are sent in one batch (batch size 1000 and more).
SelectedSingly(i, ids) ==
  UNION {{e.id : e \in CutQuery(graph, proj, {id}, inv[i].start_component,
                                 inv[i].end_component)} : id \in ids}
SelectedAtOnce(i, ids) ==
  {e.id : e \in CutQuery(graph, proj, ids, inv[i].start_component,
                          inv[i].end_component)}

\* C11: the set of edge ids the cut selection returns does not depend on
\* the batch size: the batches of the model's batch_size give the set that
\* batches of one id and one batch of all the ids give; the batches are a
\* partition of the masked ids, and only their number depends on the size.
C11_BatchInvariance ==
  \A i \in Inv :
    Selected(i) =>
      /\ Ids(inv[i].min_cut) = SelectedSingly(i, inv[i].path_relationships)
      /\ Ids(inv[i].min_cut) = SelectedAtOnce(i, inv[i].path_relationships)
      /\ Len(inv[i].min_cut) = Cardinality(Ids(inv[i].min_cut))
      /\ UNION {inv[i].batches[k] : k \in 1..Len(inv[i].batches)}
           = inv[i].path_relationships
      /\ (Len(inv[i].batches) - 1) * batch_size
           < Cardinality(inv[i].path_relationships)
      /\ Cardinality(inv[i].path_relationships)
           <= Len(inv[i].batches) * batch_size

C11_Witness ==
  \E i \in Inv :
    /\ Selected(i) /\ Len(inv[i].batches) >= 2
    /\ inv[i].min_cut # <<>>
    /\ Ids(inv[i].min_cut) # inv[i].path_relationships

\* How an invocation ended: with a cut or with an exception, and the ids of
\* the cut.
Outcome(i) == <<OutcomeKind(i), Ids(inv[i].result)>>

SameInputs(i, j) ==
  /\ inv[i].ids_are_str = inv[j].ids_are_str
  /\ inv[i].relationship_types = inv[j].relationship_types
  /\ inv[i].node_labels = inv[j].node_labels
  /\ inv[i].max_path_length = inv[j].max_path_length

\* C12: of two consecutive invocations with the same arguments on the same
\* graph, the second ends as the first did, with the same set of edge ids,
\* whether the first returned or raised of its own and whatever projection
\* it left; stated for a first invocation that no engine failure ended and
\* a second one that no engine failure hit.
C12_Idempotent ==
  (/\ Terminated(1) /\ Terminated(2) /\ SameInputs(1, 2)
   /\ ~(Failed(1) /\ inv[1].faulted) /\ ~inv[2].faulted)
    => Outcome(1) = Outcome(2)

\* The second invocation found a projection the first had left.
C12_Witness ==
  /\ Done(2) /\ SameInputs(1, 2) /\ inv[2].result # <<>>
  /\ Done(1) /\ inv[1].faulted
  /\ inv[2].calls[2] = "drop"

\* How invocation i ends when it starts with no projection in the engine
\* and no engine call fails for a reason outside the model, given the
\* paths the engine answered.
FreshOutcome(i) ==
  LET r == inv[i]
      comp == Wcc(ProjectNodes(graph), Restricted(i, r.path_relationships))
      p == [nodes |-> ProjectNodes(graph), componentId |-> comp]
  IN IF ~r.ids_are_str THEN <<"AttributeError", {}>>
     ELSE IF r.paths = {} THEN <<"cut", {}>>
     ELSE IF r.relationship_types = {} THEN <<"UnboundLocalError", {}>>
     ELSE IF r.node_labels = {} THEN <<"Neo4jError", {}>>
     ELSE IF ComponentCount(comp) <= 1 THEN <<"ValueError", {}>>
     ELSE IF comp[Source] = comp[Target] THEN <<"cut", {}>>
     ELSE <<"cut", {e.id : e \in CutQuery(graph, p, r.path_relationships,
                                         comp[Source], comp[Target])}>>

\* Invocation i has ended, by return or exception, with the projection it
\* created still in the engine: the project query succeeded (the component
\* computation was called) and the last call is not a successful drop.
LeftBehind(i) ==
  /\ Terminated(i) /\ Issued(i, "wcc")
  /\ inv[i].calls[Len(inv[i].calls)] # "drop"

\* Invocation 2 was called with the projection of invocation 1 in the
\* engine and has got as far as the creation of its own.
Recovers(i) ==
  /\ LeftBehind(1) /\ i = 2
  /\ inv[i].paths # {} /\ Len(inv[i].calls) >= 2

\* C14: an invocation that finds the projection of an earlier invocation
\* drops it at the start of its projection creation (the drop succeeds and
\* the project query comes next), and it ends as the same invocation ends
\* when it starts with no projection; stated for an invocation no engine
\* failure hit.
C14_RecoversLeftover ==
  (Recovers(2) /\ ~inv[2].faulted) =>
    /\ inv[2].calls[2] = "drop"
    /\ Len(inv[2].calls) >= 3 => inv[2].calls[3] = "project"
    /\ Terminated(2) => Outcome(2) = FreshOutcome(2)

\* The first invocation raised and left its projection, the second has
\* another label filter and returns a cut.
C14_Witness ==
  /\ Recovers(2) /\ ~inv[2].faulted
  /\ Failed(1) /\ inv[1].node_labels # inv[2].node_labels
  /\ Done(2) /\ Issued(2, "project")

\* The last engine call of invocation i is a drop.
EndsWithDrop(i) ==
  inv[i].calls # <<>> /\ IsDrop(inv[i].calls[Len(inv[i].calls)])

\* C13: no failure of a drop call is raised: find_min_cut never fails
\* with the exception of a drop call, neither out of the drop that precedes
\* the projection nor out of the final drop, after which the computed cut
\* is returned.
C13_DropNeverRaises ==
  \A i \in Inv :
    /\ Failed(i) /\ EndsWithDrop(i) => inv[i].err \notin FaultKinds
    /\ inv[i].phase # "drop"

\* The components gds.wcc counts when only the nodes with a requested
\* label are nodes of the projection.
LabelledNodes(i) == {n \in graph.nodes : graph.label[n] \in inv[i].node_labels}
LabelledCount(i) ==
  ComponentCount(Wcc(LabelledNodes(i),
                     Restricted(i, inv[i].path_relationships)))

\* C15: every node of the projection an invocation created has one of the
\* requested labels, and the component count the invocation gets is the
\* count over those nodes.
C15_ProjectionNodesMatch ==
  /\ proj.exists => proj.nodes \subseteq LabelledNodes(proj.owner)
  /\ \A i \in Inv :
       inv[i].component_count # Absent =>
         inv[i].component_count = LabelledCount(i)

\* Invocation i has an empty filter and its enumeration found a path.
EmptyFilter(i) ==
  /\ inv[i].relationship_types = {} \/ inv[i].node_labels = {}
  /\ inv[i].paths # {}

\* C16: with an empty relationship-type or node-label filter and a path
\* found, find_min_cut does not fail in the creation of the projection: it
\* ends (no engine call failing for a reason of its own) after the
\* creation and the component computation have run.
C16_EmptyFilterUnrestricted ==
  \A i \in Inv :
    (EmptyFilter(i) /\ Terminated(i) /\ ~inv[i].faulted) =>
      /\ inv[i].phase # "create"
      /\ Issued(i, "project") /\ Issued(i, "wcc")

\* C17: when an engine call fails in a phase of find_min_cut, the error
\* the caller gets names that phase, and no cut is returned.
C17_ErrorNamesPhase ==
  \A i \in Inv :
    (Failed(i) /\ inv[i].err \in FaultKinds) =>
      /\ Surfaced(inv[i]).kind = inv[i].err
      /\ Surfaced(inv[i]).phase = inv[i].phase
      /\ inv[i].result = <<>>

\* Invocation i issues a path expansion, a projection creation or a
\* component computation in this step.
Issues(i) ==
  /\ Len(inv'[i].calls) = Len(inv[i].calls) + 1
  /\ inv'[i].calls[Len(inv'[i].calls)] \in {"expand", "project", "wcc"}

\* C18: connect() fails when a required library is missing (the finder is
\* verified only if both are installed, and a connect that did not verify
\* has raised), and no path expansion, projection creation or component
\* computation is issued through a finder whose verification did not
\* succeed.
C18_VerifiedBeforeUse ==
  /\ [](finder.verified => Required \subseteq plugins)
  /\ [](finder.driver = "open" /\ ~finder.verified
         => finder.err = "ConnectionError")
  /\ [][\A i \in Inv : Issues(i) => finder.verified]_vars

\* C19: no step of find_min_cut creates, deletes or changes a node or an
\* edge of the graph, or changes the libraries of the engine; what it
\* changes in the engine is the projection and the component ids in it.
C19_GraphReadOnly ==
  [][graph' = graph /\ plugins' = plugins]_vars

\* An invocation has returned a cut, another path of it would have raised:
\* projection, component computation, reads, selection and drop have run.
C19_Witness ==
  \E i \in Inv :
    /\ Done(i) /\ Issued(i, "project") /\ Issued(i, "wcc")
    /\ Issued(i, "select") /\ inv[i].calls[Len(inv[i].calls)] = "drop"
    /\ graph.edges # {}

\* C20: main returns 0 exactly when the computation returned a cut (the
\* empty cut included), and 1 (not 0) when the translation of a node id or
\* the computation raised.
C20_ExitCode ==
  main.pc = "returned" =>
    /\ main.exit = 0 <=> Done(1)
    /\ main.exit # 0 <=> main.raised # NONE
    /\ Failed(1) => main.raised = inv[1].err
    /\ main.exit \in {0, 1}

\* main has returned 0 with the empty cut of a computation that ran to its
\* end.
C20_Witness ==
  /\ main.pc = "returned" /\ main.exit = 0
  /\ inv[1].result = <<>> /\ Issued(1, "wcc")

\* The number of entries call among the first k entries of the log of
\* invocation i.
RECURSIVE Count(_, _, _)
Count(i, call, k) ==
  IF k = 0 THEN 0
  ELSE Count(i, call, k - 1) + (IF inv[i].calls[k] = call THEN 1 ELSE 0)

\* C21: in the log of an invocation the component computation comes
\* right after the projection creation (which has returned, a failure
\* ends the invocation); a label read comes after the component
\* computation and only with a count > 1; a batch query comes after both
\* label reads; and a drop that follows the component computation (the
\* final drop) is the last entry.
C21_PhaseOrder ==
  \A i \in Inv :
    /\ \A k \in 1..Len(inv[i].calls) :
         LET call == inv[i].calls[k]
         IN /\ call = "wcc" => k > 1 /\ inv[i].calls[k - 1] = "project"
            /\ call = "read" =>
                 /\ inv[i].component_count > 1
                 /\ Count(i, "wcc", k) = 1
                 /\ inv[i].calls[k - 1] \in {"wcc", "read"}
            /\ call = "select" =>
                 /\ Count(i, "read", k) = 2
                 /\ inv[i].calls[k - 1] \in {"read", "select"}
            /\ (IsDrop(call) /\ Count(i, "wcc", k) = 1) =>
                 k = Len(inv[i].calls)
    /\ (Failed(i) /\ inv[i].phase = "create") => ~Issued(i, "wcc")
    /\ (Failed(i) /\ inv[i].phase = "wcc") => ~Issued(i, "read")

\* An invocation has gone through every phase, with two batch queries.
C21_Witness ==
  \E i \in Inv :
    /\ Done(i) /\ Count(i, "select", Len(inv[i].calls)) = 2
    /\ Count(i, "read", Len(inv[i].calls)) = 2

\* C22: an invocation that returns after its cut selection (with a cut, or
\* with the empty cut of a shared component label) has called the drop
\* after the selection, as its last engine call, and when that drop
\* succeeded no projection is in the engine at the return.
C22_DropAfterSelection ==
  \A i \in Inv :
    (Done(i) /\ Issued(i, "read")) =>
      /\ EndsWithDrop(i)
      /\ inv[i].calls[Len(inv[i].calls) - 1] \in {"read", "select"}
      /\ inv[i].calls[Len(inv[i].calls)] = "drop" => ~proj.exists

\* The empty cut of a shared component label has been returned and the
\* projection is gone.
C22_Witness ==
  \E i \in Inv :
    /\ Done(i) /\ Issued(i, "read") /\ ~Issued(i, "select")
    /\ inv[i].start_component = inv[i].end_component
    /\ inv[i].calls[Len(inv[i].calls)] = "drop" /\ ~proj.exists

\* C23: an invocation whose enumeration found no path is Done with the
\* expansion as its only engine call (no drop, no projection creation, no
\* component computation, no batch query), and the projection an earlier
\* invocation left, or the absence of a projection, is as it was.
C23_NoPathFrame ==
  /\ \A i \in Inv :
       FoundNoPath(i) => Done(i) /\ inv[i].calls = <<"expand">>
  /\ FoundNoPath(2) =>
       IF LeftBehind(1)
       THEN /\ proj.exists /\ proj.owner = 1
            /\ proj.edges = Restricted(1, inv[1].path_relationships)
            /\ proj.mutated = (inv[1].component_count # Absent)
       ELSE proj = NoProjection

\* The second invocation found no path and the projection the first left
\* is in the engine.
C23_Witness == FoundNoPath(2) /\ LeftBehind(1) /\ proj.exists

\* The masked edges of invocation i, and the component labels of the two
\* ends of an edge in the projection.
Masked(i) == {e \in graph.edges : e.id \in inv[i].path_relationships}
EndLabels(e) == {proj.componentId[e.src], proj.componentId[e.dst]}
Endpoints(i) == {inv[i].start_component, inv[i].end_component}

Wanted(i, e) ==
  /\ e.type \in inv[i].relationship_types
  /\ graph.label[e.src] \in inv[i].node_labels
  /\ graph.label[e.dst] \in inv[i].node_labels
  /\ e.id \notin inv[i].path_relationships

\* C25: every edge of the projection has one of the requested types, both
\* ends of a requested label, and is not masked by the invocation that
\* created the projection; the component labels are those of the graph of
\* such edges, so that no masked edge joins two components.
C25_ProjectionEdges ==
  proj.exists =>
    /\ \A e \in proj.edges : e \in graph.edges /\ Wanted(proj.owner, e)
    /\ proj.mutated =>
         proj.componentId =
           Wcc(proj.nodes, {e \in graph.edges : Wanted(proj.owner, e)})

\* A labelled projection that has an edge, of a graph with an edge of
\* another type and an edge at a node of another label, one edge masked.
C25_Witness ==
  /\ proj.exists /\ proj.mutated /\ proj.edges # {}
  /\ inv[proj.owner].path_relationships # {}
  /\ \E e \in graph.edges : e.type \notin inv[proj.owner].relationship_types
  /\ \E e \in graph.edges :
       graph.label[e.src] \notin inv[proj.owner].node_labels

\* C26: the project call of an invocation comes right after a drop attempt
\* of the same invocation, and an invocation whose drop attempt before the
\* projection failed has issued the project call when it is over.
C26_DropThenProject ==
  \A i \in Inv :
    /\ \A k \in 1..Len(inv[i].calls) :
         inv[i].calls[k] = "project" => k > 1 /\ IsDrop(inv[i].calls[k - 1])
    /\ (Terminated(i) /\ Len(inv[i].calls) >= 2
                      /\ inv[i].calls[2] = "drop_failed")
         => Issued(i, "project")

\* The paths of invocation i the edge of id occurs in.
PathsThrough(i, id) ==
  {p \in inv[i].paths : \E k \in 1..Len(p) : p[k] = id}

\* C27: the ids _extract_relationships_from_paths returned are the ids of
\* the edges that occur in at least one of the paths, an edge of several
\* paths being one element, and between the answer of the expansion and
\* the use of the ids no engine call was issued.
C27_ExtractsPathIds ==
  \A i \in Inv :
    inv[i].paths # {} =>
      /\ inv[i].path_relationships =
           {e.id : e \in {f \in graph.edges : PathsThrough(i, f.id) # {}}}
      /\ inv[i].pc = "create_drop" => inv[i].calls = <<"expand">>

\* The ids have been taken from paths two of which share an edge.
C27_Witness ==
  \E i \in Inv :
    /\ inv[i].pc = "create_drop"
    /\ \E id \in inv[i].path_relationships :
         Cardinality(PathsThrough(i, id)) > 1

\* The number of batch queries of invocation i the id was sent in.
SentIn(i, id) ==
  Cardinality({k \in 1..Len(inv[i].batches) : id \in inv[i].batches[k]})

\* The batch loop of invocation i has run to its end.
LoopOver(i) ==
  inv[i].batches # <<>> /\ inv[i].pc \in {"final_drop", "done"}

\* C28: an invocation, failed or not, has issued the expansion, the
\* project call and the component computation at most once each; a masked
\* id is in at most one batch, each batch is one query, and when the batch
\* loop is over every masked id has been sent in exactly one query.
C28_NoRetry ==
  \A i \in Inv :
    /\ \A call \in {"expand", "project", "wcc"} :
         Count(i, call, Len(inv[i].calls)) <= 1
    /\ \A id \in inv[i].path_relationships : SentIn(i, id) <= 1
    /\ Len(inv[i].batches) <= Count(i, "select", Len(inv[i].calls))
    /\ LoopOver(i) =>
         /\ \A id \in inv[i].path_relationships : SentIn(i, id) = 1
         /\ Len(inv[i].batches) = Count(i, "select", Len(inv[i].calls))

\* Three masked ids have been sent in two batch queries.
C28_Witness ==
  \E i \in Inv :
    /\ LoopOver(i) /\ Len(inv[i].batches) = 2
    /\ Cardinality(inv[i].path_relationships) = 3

\* C29: when every engine call returns, an invocation that has started is
\* eventually Done or Failed, and the batch loop, once entered, is left.
C29_Terminates ==
  \A i \in Inv :
    /\ Active(i) ~> Terminated(i)
    /\ (inv[i].pc = "select") ~> (inv[i].pc # "select")

\* An invocation is over after a batch loop of two turns.
C29_Witness ==
  \E i \in Inv : Terminated(i) /\ Len(inv[i].batches) = 2

\* The graph with the edge e stored in the other direction, and what the
\* engine computes on a graph G for the filters and the masked ids of
\* invocation i: the labelled projection and the rows of the cut query.
Reversed(G, e) ==
  [G EXCEPT !.edges = (@ \ {e}) \cup {Edge(e.id, e.dst, e.src, e.type)}]
LabelledOn(G, i) ==
  [nodes |-> ProjectNodes(G),
   componentId |->
     Wcc(ProjectNodes(G),
         ProjectEdges(G, inv[i].relationship_types, inv[i].node_labels,
                      inv[i].path_relationships))]
CutOn(G, i) ==
  {e.id : e \in CutQuery(G, LabelledOn(G, i), inv[i].path_relationships,
                         NodeProperty(LabelledOn(G, i), Source),
                         NodeProperty(LabelledOn(G, i), Target))}

\* C30: for every edge of the graph, the graph with that edge reversed has
\* the component labels the projection has, and the cut query on it, for
\* the same masked ids and the same two nodes, selects the ids the
\* invocation selected.
C30_DirectionInsensitive ==
  \A i \in Inv :
    Selected(i) =>
      \A e \in graph.edges :
        /\ LabelledOn(Reversed(graph, e), i).componentId = proj.componentId
        /\ CutOn(Reversed(graph, e), i) = Ids(inv[i].min_cut)

\* A selection that returned an edge, from a projection that has an edge.
C30_Witness ==
  \E i \in Inv :
    Selected(i) /\ inv[i].min_cut # <<>> /\ proj.edges # {}

\* C31: when the module-level find_min_cut has returned or raised, the
\* connection its finder opened is not open any more.
C31_ConnectionClosed ==
  main.pc = "returned" => finder.driver # "open"

\* C32: an invocation that is under way has an open connection (after
\* close() it has connected again before the path expansion), and no
\* engine call is issued while the finder's driver is closed.
C32_Reconnects ==
  /\ [](\A i \in Inv : Active(i) => finder.driver = "open")
  /\ [][\A i \in Inv :
         Len(inv'[i].calls) > Len(inv[i].calls) => finder.driver = "open"]_vars

\* The masked edges between the component of the source and the component
\* of the target, in the labelled projection.
CutEdges(i) == {e \in Masked(i) : EndLabels(e) = Endpoints(i)}

\* C33: the list the cut selection builds has no id twice, and when the
\* batch loop is over its length is the number of the cut edges.
C33_NoDuplicateIds ==
  \A i \in Inv :
    /\ Len(inv[i].min_cut) = Cardinality(Ids(inv[i].min_cut))
    /\ Len(inv[i].result) = Cardinality(Ids(inv[i].result))
    /\ Selected(i) => Len(inv[i].min_cut) = Cardinality(CutEdges(i))

\* A list of two ids, built in a batch loop of two turns.
C33_Witness ==
  \E i \in Inv :
    Selected(i) /\ Len(inv[i].batches) >= 2 /\ Len(inv[i].min_cut) >= 2

=============================================================================
